---- MODULE Spec2Model ----
(***************************************************************************)
(* Task / subtask lifecycle and escrow settlement of the work-stream       *)
(* backend (backend/app/api/routes/{tasks,subtasks,admin}.py).             *)
(*                                                                         *)
(* Every HTTP handler is one action.  <handler>_code is the status code    *)
(* the handler answers with in the current state: 200 when it returns, the *)
(* code of the HTTPException it raises otherwise, and then the store is    *)
(* left untouched.  SpecRace runs the claim and cancel handlers one        *)
(* database round trip at a time, each request in a session of its own, to *)
(* expose the interleavings the awaits allow.                              *)
(***************************************************************************)
EXTENDS Integers, Sequences, FiniteSets, TLC

VARIABLES
    task,         \* tasks table: task id -> row
    subtask,      \* subtasks table: subtask id -> row (domain = rows created)
    submissions,  \* submissions table, in creation order
    disputes,     \* disputes table, in creation order
    users,        \* users table: reputation counters per user
    chain,        \* escrow contract: taskCounter and payments released
    configured,   \* BlockchainService.is_configured() (fixed by settings)
    req,          \* requests in flight (SpecRace only)
    score,        \* value returned by calculate_reputation_score (SpecScore),
                  \* or the score passed to calculate_tier (SpecTier)
    tier,         \* value returned by calculate_tier (SpecTier only)
    auth          \* nonce_cache of auth.py, with the nonces issued and the
                  \* verifications that succeeded (SpecAuth only)

vars == <<task, subtask, submissions, disputes, users, chain, configured, req,
          score, tier, auth>>
store == <<task, subtask, submissions, disputes, users, chain>>

\* ------------------------------------------------------------------ bounds
MaxSubtasks == 2
MaxSubmissions == 2
MaxDisputes == 1
MaxCollaborators == 1
MaxDisputesRaised == 2
MaxReorderLen == 3
MaxTasksCompleted == 51
MaxTasksApproved == 51
MaxDisputesWon == 1
MaxDisputesLost == 1
MaxNonces == 3

\* --------------------------------------------------------------- constants
\* Optional values: None, or Some(x) whose value is get(o).
None == <<>>
Some(x) == <<x>>
get(o) == o[1]
Users == {"client", "admin", "w1", "w2"}
Tasks == {"t1"}
SubtaskIds == 1..MaxSubtasks
ReqIds == {"r1", "r2"}

\* The users who claim work in the lifecycle specification.
Workers == {"w1", "w2"}

\* User.is_admin
is_admin(u) == u = "admin"

\* A wallet address as a request spells it: the account and the letter case.
\* Stored addresses are lower-case (auth.py lower-cases before it stores).
Wallets == {<<"w2", "mixed">>, <<"dead", "lower">>}
lower(w) == <<w[1], "lower">>
wallet_address(u) == <<u, "lower">>
\* select(User).where(User.wallet_address == wallet.lower()).scalar_one_or_none()
user_by_wallet(w) ==
    IF \E u \in Users : wallet_address(u) = lower(w)
    THEN Some(CHOOSE u \in Users : wallet_address(u) = lower(w))
    ELSE None

\* Split percentages in thousandths of a percent (Decimal inputs).
SplitValues == {40004, 59996}
HUNDRED == 100000
\* The column is ARRAY(Numeric(5, 2)): the database rounds what it stores to
\* two decimals (half away from zero), and db.refresh reads that back.
numeric_5_2(x) == ((x + 5) \div 10) * 10

RECURSIVE sum(_)
sum(s) == IF Len(s) = 0 THEN 0 ELSE Head(s) + sum(Tail(s))

SeqsUpTo(S, n) == UNION {[1..k -> S] : k \in 0..n}

\* SubtaskClaimRequest: the optional body of a claim.
ClaimRequests ==
    {None} \cup
    {Some(r) : r \in
        [collaborators : {None} \cup {Some(c) : c \in SeqsUpTo(Wallets, MaxCollaborators)},
         splits : {None} \cup {Some(x) : x \in SeqsUpTo(SplitValues, MaxCollaborators + 1)}]}

\* fund_request.escrow_tx_hash, by what the chain knows of it.
TxHashes == {"tx_ok", "tx_failed", "tx_missing"}

\* -------------------------------------------------------------------- Init
NewTask(c) ==
    [status |-> "draft", client_id |-> c, escrow_tx_hash |-> None,
     escrow_contract_task_id |-> None, funded_at |-> FALSE,
     completed_at |-> FALSE]

NewUser ==
    [tasks_completed |-> 0, tasks_approved |-> 0,
     disputes_won |-> 0, disputes_lost |-> 0, bio |-> None]

\* A request in flight: where its handler stands (pc), who sent it, the rows its
\* session has loaded (st, tk) and, once it is done, the status code it answered.
IdleRequest ==
    [pc |-> "idle", op |-> "none", user |-> "none", sid |-> 0, tid |-> "none",
     st |-> None, tk |-> None, sub |-> 0, worker |-> None, called |-> FALSE,
     tx |-> FALSE, code |-> 0]

\* auth.py:28: the nonce cache starts empty; no nonce issued, none verified.
NoAuth ==
    [nonce_cache |-> [w \in Workers |-> None], issued |-> 0,
     latest |-> [w \in Workers |-> None], verified |-> <<>>]

Init ==
    /\ task = [t \in Tasks |-> NewTask("client")]
    /\ subtask = [s \in {} |-> 0]
    /\ submissions = <<>>
    /\ disputes = <<>>
    /\ users = [u \in Users |-> NewUser]
    /\ chain = [taskCounter |-> 0, released |-> [s \in SubtaskIds |-> 0]]
    /\ configured \in BOOLEAN
    /\ req = [r \in ReqIds |-> IdleRequest]
    /\ score = None
    /\ tier = None
    /\ auth = NoAuth


\* ------------------------------------------------------------ claim_subtask
\* A claim that also takes a subtask whose work was rejected.
claim_status_ok_lax(st) == st.status \in {"open", "rejected"}

\* subtasks.py:145
claim_status_ok(st) == st.status = "open"

\* subtasks.py:155
claim_task_ok(tk) == tk.status \in {"funded", "decomposed", "in_progress"}

\* subtasks.py:165  `claim_request and claim_request.collaborators`
has_collaborators(r) ==
    r # None /\ get(r).collaborators # None /\ Len(get(get(r).collaborators)) > 0

\* claim_request.collaborators and claim_request.splits, once known to be given
req_collaborators(r) == get(get(r).collaborators)
req_splits(r) == get(get(r).splits)

\* subtasks.py:180  `claim_request.splits`
has_splits(r) == get(r).splits # None /\ Len(get(get(r).splits)) > 0

\* subtasks.py:168-177: a wallet that resolves to no user
collaborator_not_found(r) ==
    \E i \in 1..Len(req_collaborators(r)) :
        user_by_wallet(req_collaborators(r)[i]) = None

\* subtasks.py:181
splits_length_ok(r) == Len(req_splits(r)) = Len(req_collaborators(r)) + 1

\* subtasks.py:186
splits_sum_ok(r) == sum(req_splits(r)) = HUNDRED

\* subtasks.py:165-190: the request is rejected with 400
claim_request_invalid(r) ==
    /\ has_collaborators(r)
    /\ \/ collaborator_not_found(r)
       \/ /\ has_splits(r)
          /\ ~splits_length_ok(r) \/ ~splits_sum_ok(r)

\* subtasks.py:162-178
collaborator_ids(r) ==
    IF has_collaborators(r)
    THEN Some([i \in 1..Len(req_collaborators(r)) |->
                  get(user_by_wallet(req_collaborators(r)[i]))])
    ELSE None

\* A claim that stores the whole list of splits, the claimer's included.
collaborator_splits_whole(r) ==
    IF has_collaborators(r) /\ has_splits(r)
    THEN Some([i \in 1..Len(req_splits(r)) |-> numeric_5_2(req_splits(r)[i])])
    ELSE None

\* subtasks.py:163,191  `claim_request.splits[1:]`, as the column stores it
collaborator_splits(r) ==
    IF has_collaborators(r) /\ has_splits(r)
    THEN Some([i \in 1..(Len(req_splits(r)) - 1) |->
                  numeric_5_2(req_splits(r)[i + 1])])
    ELSE None

\* subtasks.py:193-197
claimed_row(st, u, r) ==
    [st EXCEPT !.status = "claimed", !.claimed_by = Some(u), !.claimed_at = TRUE,
               !.collaborators = collaborator_ids(r),
               !.collaborator_splits = collaborator_splits(r)]

\* A claim that starts only a task that has just been funded.
task_after_claim_funded_only(tk) ==
    IF tk.status = "funded" THEN [tk EXCEPT !.status = "in_progress"] ELSE tk

\* subtasks.py:200-201
task_after_claim(tk) ==
    IF tk.status \in {"funded", "decomposed"}
    THEN [tk EXCEPT !.status = "in_progress"] ELSE tk

claim_subtask_code(u, s, r) ==
    IF s \notin DOMAIN subtask THEN 404
    ELSE IF ~claim_status_ok(subtask[s]) THEN 400
    ELSE IF ~claim_task_ok(task[subtask[s].task_id]) THEN 400
    ELSE IF claim_request_invalid(r) THEN 400
    ELSE 200

claim_subtask(u, s, r) ==
    IF claim_subtask_code(u, s, r) # 200 THEN UNCHANGED vars
    ELSE /\ subtask' = [subtask EXCEPT ![s] = claimed_row(subtask[s], u, r)]
         /\ task' = [task EXCEPT ![subtask[s].task_id] = task_after_claim(@)]
         /\ UNCHANGED <<submissions, disputes, users, chain, configured, score, tier, auth, req>>

\* ---------------------------------------------------------- unclaim_subtask
\* subtasks.py:235
unclaim_authorized(u, st) == st.claimed_by = Some(u) \/ is_admin(u)

\* subtasks.py:241
unclaim_status_ok(st) == st.status \in {"claimed", "in_progress"}

\* An unclaim that forgets the splits of the claim it undoes.
unclaimed_row_keeps_splits(st) ==
    [st EXCEPT !.status = "open", !.claimed_by = None, !.claimed_at = FALSE,
               !.collaborators = None]

\* subtasks.py:247-251
unclaimed_row(st) ==
    [st EXCEPT !.status = "open", !.claimed_by = None, !.claimed_at = FALSE,
               !.collaborators = None, !.collaborator_splits = None]

unclaim_subtask_code(u, s) ==
    IF s \notin DOMAIN subtask THEN 404
    ELSE IF ~unclaim_authorized(u, subtask[s]) THEN 403
    ELSE IF ~unclaim_status_ok(subtask[s]) THEN 400
    ELSE 200

unclaim_subtask(u, s) ==
    IF unclaim_subtask_code(u, s) # 200 THEN UNCHANGED vars
    ELSE /\ subtask' = [subtask EXCEPT ![s] = unclaimed_row(@)]
         /\ UNCHANGED <<task, submissions, disputes, users, chain, configured, score, tier, auth, req>>

\* -------------------------------------------------------------- submit_work
\* An uploaded artifact, by the first check it fails ("none": no artifact).
Artifacts == {"none", "ok", "no_filename", "bad_extension", "too_big", "pin_fails"}

\* subtasks.py:291-293, 581  `subtask.collaborators and user.id in subtask.collaborators`
is_collaborator(u, st) ==
    /\ st.collaborators # None
    /\ \E i \in 1..Len(get(st.collaborators)) : get(st.collaborators)[i] = u

\* A submit open to anyone once the subtask has a claimant.
submit_authorized_anyone(u, st) == st.claimed_by # None

\* subtasks.py:289-298
submit_authorized(u, st) ==
    \/ st.claimed_by = Some(u)
    \/ is_collaborator(u, st)

\* A submit that also takes work on a subtask under dispute.
submit_status_ok_lax(st) ==
    st.status \in {"claimed", "in_progress", "rejected", "disputed"}

\* subtasks.py:300
submit_status_ok(st) == st.status \in {"claimed", "in_progress", "rejected"}

\* A submit that goes on without the artifact when the upload fails.
artifact_error_upload_ignored(a) ==
    CASE a = "no_filename" -> 400
      [] a = "bad_extension" -> 400
      [] a = "too_big" -> 400
      [] OTHER -> 0

\* subtasks.py:309-337: 0 when the artifact (if any) is accepted and pinned
artifact_error(a) ==
    CASE a = "no_filename" -> 400
      [] a = "bad_extension" -> 400
      [] a = "too_big" -> 400
      [] a = "pin_fails" -> 502
      [] OTHER -> 0

\* subtasks.py:342-349
NewSubmission(s, u, a) ==
    [subtask_id |-> s, submitted_by |-> u, status |-> "pending",
     artifact_ipfs_hash |-> (a = "ok"), payment_tx_hash |-> FALSE]

submit_work_code(u, s, a) ==
    IF s \notin DOMAIN subtask THEN 404
    ELSE IF ~submit_authorized(u, subtask[s]) THEN 403
    ELSE IF ~submit_status_ok(subtask[s]) THEN 400
    ELSE IF artifact_error(a) # 0 THEN artifact_error(a)
    ELSE 200

submit_work(u, s, a) ==
    IF submit_work_code(u, s, a) # 200 THEN UNCHANGED vars
    ELSE /\ submissions' = Append(submissions, NewSubmission(s, u, a))
         /\ subtask' = [subtask EXCEPT ![s].status = "submitted",
                                       ![s].submitted_at = TRUE]
         /\ UNCHANGED <<task, disputes, users, chain, configured, score, tier, auth, req>>

\* ----------------------------------------------------------- latest submission
\* A lookup that returns the subtask's first submission.
latest_submission_oldest(subs, s) ==
    LET mine == {i \in 1..Len(subs) : subs[i].subtask_id = s}
    IN  IF mine = {} THEN 0 ELSE CHOOSE i \in mine : \A j \in mine : i <= j

\* select(Submission).where(subtask_id == s).order_by(created_at.desc()).limit(1):
\* the index of the subtask's most recent submission, 0 when it has none
latest_submission(subs, s) ==
    LET mine == {i \in 1..Len(subs) : subs[i].subtask_id = s}
    IN  IF mine = {} THEN 0 ELSE CHOOSE i \in mine : \A j \in mine : j <= i

\* ---------------------------------------------------------- approve_subtask
\* subtasks.py:444-449: the index passed to the gateway, the number of the
\* task's subtasks with a smaller sequence_order
subtask_index(sts, s) ==
    Cardinality({x \in DOMAIN sts :
                    /\ sts[x].task_id = sts[s].task_id
                    /\ sts[x].sequence_order < sts[s].sequence_order})

\* A review that does not ask who the reviewer is.
review_authorized_everyone(u, tk) == TRUE

\* subtasks.py:405, 512
review_authorized(u, tk) == tk.client_id = u \/ is_admin(u)

\* A review that takes any subtask that has been submitted and reviewed once.
review_status_ok_lax(st) == st.status \in {"submitted", "approved"}

\* subtasks.py:411, 518
review_status_ok(st) == st.status = "submitted"

\* subtasks.py:436-439: the payment release is attempted
payment_attempted(st, tk) ==
    /\ st.claimed_by # None
    /\ tk.escrow_contract_task_id # None
    /\ st.budget_cngn > 0
    /\ configured

\* BlockchainService.approve_subtask_payment: a transaction hash ("paid"), or
\* None when the call fails, reverts or times out ("failed").
PaymentOutcomes == {"paid", "failed"}

\* A review that marks the submission approved only once the payment is out.
approved_submissions_when_paid(subs, s, paid) ==
    LET i == latest_submission(subs, s)
    IN  IF i = 0 \/ ~paid THEN subs
        ELSE [subs EXCEPT ![i].status = "approved", ![i].payment_tx_hash = TRUE]

\* subtasks.py:463-469
approved_submissions(subs, s, paid) ==
    LET i == latest_submission(subs, s)
    IN  IF i = 0 THEN subs
        ELSE [subs EXCEPT ![i].status = "approved",
                          ![i].payment_tx_hash = (@ \/ paid)]

\* An approval that counts the task as completed but not as approved.
users_after_approve_completed_only(us, st) ==
    IF st.claimed_by # None
    THEN [us EXCEPT ![get(st.claimed_by)].tasks_completed = @ + 1]
    ELSE us

\* subtasks.py:476-478
users_after_approve(us, st) ==
    IF st.claimed_by # None
    THEN [us EXCEPT ![get(st.claimed_by)].tasks_completed = @ + 1,
                    ![get(st.claimed_by)].tasks_approved = @ + 1]
    ELSE us

approve_subtask_code(u, s) ==
    IF s \notin DOMAIN subtask THEN 404
    ELSE IF ~review_authorized(u, task[subtask[s].task_id])
         THEN 403
    ELSE IF ~review_status_ok(subtask[s]) THEN 400
    ELSE 200

approve_subtask(u, s, outcome) ==
    IF approve_subtask_code(u, s) # 200 THEN UNCHANGED vars
    ELSE LET st == subtask[s]
             paid == payment_attempted(st, task[st.task_id]) /\ outcome = "paid"
         IN  /\ chain' = [chain EXCEPT !.released[s] = IF paid THEN @ + 1 ELSE @]
             /\ submissions' = approved_submissions(submissions, s, paid)
             /\ subtask' = [subtask EXCEPT ![s].status = "approved"]
             /\ users' = users_after_approve(users, st)
             /\ UNCHANGED <<task, disputes, configured, score, tier, auth, req>>

\* ----------------------------------------------------------- reject_subtask
\* subtasks.py:533-537
rejected_submissions(subs, s) ==
    LET i == latest_submission(subs, s)
    IN  IF i = 0 THEN subs ELSE [subs EXCEPT ![i].status = "rejected"]

reject_subtask_code(u, s) ==
    IF s \notin DOMAIN subtask THEN 404
    ELSE IF ~review_authorized(u, task[subtask[s].task_id])
         THEN 403
    ELSE IF ~review_status_ok(subtask[s]) THEN 400
    ELSE 200

reject_subtask(u, s) ==
    IF reject_subtask_code(u, s) # 200 THEN UNCHANGED vars
    ELSE /\ submissions' = rejected_submissions(submissions, s)
         /\ subtask' = [subtask EXCEPT ![s].status = "rejected"]
         /\ UNCHANGED <<task, disputes, users, chain, configured, score, tier, auth, req>>

\* ----------------------------------------------------------- create_dispute
\* A dispute that anyone signed in may raise.
dispute_authorized_anyone(u, st, tk) == TRUE

\* subtasks.py:579-583
dispute_authorized(u, st, tk) ==
    \/ tk.client_id = u
    \/ st.claimed_by = Some(u)
    \/ is_collaborator(u, st)
    \/ is_admin(u)

\* subtasks.py:589-594
NewDispute(s, u) ==
    [subtask_id |-> s, raised_by |-> u, status |-> "open", winner_id |-> None]

\* subtasks.py:598-599
task_after_dispute(tk) == [tk EXCEPT !.status = "disputed"]

create_dispute_code(u, s) ==
    IF s \notin DOMAIN subtask THEN 404
    ELSE IF ~dispute_authorized(u, subtask[s], task[subtask[s].task_id])
         THEN 403
    ELSE 200

create_dispute(u, s) ==
    IF create_dispute_code(u, s) # 200 THEN UNCHANGED vars
    ELSE /\ disputes' = Append(disputes, NewDispute(s, u))
         /\ subtask' = [subtask EXCEPT ![s].status = "disputed"]
         /\ task' = [task EXCEPT ![subtask[s].task_id] = task_after_dispute(@)]
         /\ UNCHANGED <<submissions, users, chain, configured, score, tier, auth, req>>

\* ----------------------------------------------------------- create_subtask
\* subtasks.py:638
owner_or_admin(u, tk) == tk.client_id = u \/ is_admin(u)

\* subtasks.py:645
create_subtask_status_ok(tk) == tk.status \in {"draft", "funded", "decomposed"}

\* subtasks.py:652-670
NewSubtask(t, order) ==
    [task_id |-> t, sequence_order |-> order, budget_cngn |-> 5000,
     status |-> "open", claimed_by |-> None, claimed_at |-> FALSE,
     collaborators |-> None, collaborator_splits |-> None,
     submitted_at |-> FALSE]

\* An addition that marks every parent task decomposed.
task_after_create_subtask_any(tk) == [tk EXCEPT !.status = "decomposed"]

\* subtasks.py:674-675
task_after_create_subtask(tk) ==
    IF tk.status = "funded" THEN [tk EXCEPT !.status = "decomposed"] ELSE tk

\* The id of the row the next INSERT creates.
next_subtask_id == Cardinality(DOMAIN subtask) + 1

create_subtask_code(u, t, order) ==
    IF ~owner_or_admin(u, task[t]) THEN 403
    ELSE IF ~create_subtask_status_ok(task[t]) THEN 400
    ELSE 200

create_subtask(u, t, order) ==
    IF create_subtask_code(u, t, order) # 200 THEN UNCHANGED vars
    ELSE /\ subtask' = (next_subtask_id :> NewSubtask(t, order)) @@ subtask
         /\ task' = [task EXCEPT ![t] = task_after_create_subtask(@)]
         /\ UNCHANGED <<submissions, disputes, users, chain, configured, score, tier, auth, req>>

\* ---------------------------------------------------------------- fund_task
\* BlockchainService.verify_transaction: the receipt's status, None when the
\* transaction is unknown to the chain.
verify_transaction(tx) ==
    CASE tx = "tx_ok" -> Some(1)
      [] tx = "tx_failed" -> Some(0)
      [] OTHER -> None

\* BlockchainService.get_task_counter
get_task_counter == chain.taskCounter

\* A verification that is content with any receipt, whatever its status.
fund_verification_error_any_receipt(tx) ==
    IF ~configured THEN 0
    ELSE IF verify_transaction(tx) = None THEN 400
    ELSE 0

\* tasks.py:208-219: 0 when funding may proceed
fund_verification_error(tx) ==
    IF ~configured THEN 0
    ELSE IF verify_transaction(tx) = None THEN 400
    ELSE IF get(verify_transaction(tx)) # 1 THEN 400
    ELSE 0

\* A funding that records the contract's task counter whether or not the
\* gateway is configured.
funded_row_always_bound(tk, tx) ==
    [tk EXCEPT !.escrow_contract_task_id = Some(get_task_counter),
               !.escrow_tx_hash = Some(tx),
               !.status = "funded",
               !.funded_at = TRUE]

\* tasks.py:220-224
funded_row(tk, tx) ==
    [tk EXCEPT !.escrow_contract_task_id =
                   IF configured THEN Some(get_task_counter) ELSE @,
               !.escrow_tx_hash = Some(tx),
               !.status = "funded",
               !.funded_at = TRUE]

fund_task_code(u, t, tx) ==
    IF ~owner_or_admin(u, task[t]) THEN 403
    ELSE IF task[t].status # "draft" THEN 400
    ELSE IF fund_verification_error(tx) # 0
         THEN fund_verification_error(tx)
    ELSE 200

fund_task(u, t, tx) ==
    IF fund_task_code(u, t, tx) # 200 THEN UNCHANGED vars
    ELSE /\ task' = [task EXCEPT ![t] = funded_row(@, tx)]
         /\ UNCHANGED <<subtask, submissions, disputes, users, chain, configured, score, tier, auth, req>>

\* -------------------------------------------------------------- cancel_task
\* A cancellation that is also allowed once work has started.
cancel_status_ok_lax(tk) ==
    tk.status \in {"draft", "funded", "decomposed", "in_progress"}

\* tasks.py:320
cancel_status_ok(tk) == tk.status \in {"draft", "funded", "decomposed"}

\* tasks.py:327-333: the task's subtasks that block a cancellation
active_subtasks(sts, t) ==
    {s \in DOMAIN sts : /\ sts[s].task_id = t
                        /\ sts[s].status \in {"claimed", "in_progress", "submitted"}}

cancel_task_code(u, t) ==
    IF ~owner_or_admin(u, task[t]) THEN 403
    ELSE IF ~cancel_status_ok(task[t]) THEN 400
    ELSE IF active_subtasks(subtask, t) # {} THEN 400
    ELSE 200

cancel_task(u, t) ==
    IF cancel_task_code(u, t) # 200 THEN UNCHANGED vars
    ELSE /\ task' = [task EXCEPT ![t].status = "cancelled"]
         /\ UNCHANGED <<subtask, submissions, disputes, users, chain, configured, score, tier, auth, req>>

\* ------------------------------------------------------------ complete_task
\* tasks.py:384-387
subtasks_of(sts, t) == {s \in DOMAIN sts : sts[s].task_id = t}

\* A completion that does not ask for the task to have subtasks.
complete_error_no_empty_check(sts, t) ==
    IF ~(\A s \in subtasks_of(sts, t) : sts[s].status = "approved") THEN 400
    ELSE 0

\* tasks.py:389-400: 0 when the task may be completed
complete_error(sts, t) ==
    IF subtasks_of(sts, t) = {} THEN 400
    ELSE IF ~(\A s \in subtasks_of(sts, t) : sts[s].status = "approved") THEN 400
    ELSE 0

complete_task_code(u, t) ==
    IF ~owner_or_admin(u, task[t]) THEN 403
    ELSE IF complete_error(subtask, t) # 0 THEN 400
    ELSE 200

complete_task(u, t) ==
    IF complete_task_code(u, t) # 200 THEN UNCHANGED vars
    ELSE /\ task' = [task EXCEPT ![t].status = "completed",
                                 ![t].completed_at = TRUE]
         /\ UNCHANGED <<subtask, submissions, disputes, users, chain, configured, score, tier, auth, req>>

\* ---------------------------------------------------------- resolve_dispute
\* admin.py:297-305
resolved_row(st, winner) ==
    IF st.claimed_by = Some(winner)
    THEN [st EXCEPT !.status = "approved"]
    ELSE [st EXCEPT !.status = "rejected"]

\* A resolution that leaves the task as the dispute left it.
task_after_resolve_untouched(tk) == tk

\* admin.py:307-313
task_after_resolve(tk) == [tk EXCEPT !.status = "in_progress"]

\* A resolution that, when the raiser wins, always charges the task's client.
dispute_loser_client(d, st, tk, winner) ==
    IF d.raised_by = winner THEN Some(tk.client_id) ELSE Some(d.raised_by)

\* admin.py:323-346: the user whose disputes_lost rises, None when no row is found
dispute_loser(d, st, tk, winner) ==
    IF d.raised_by = winner
    THEN IF st.claimed_by # Some(winner) THEN st.claimed_by
         ELSE Some(tk.client_id)
    ELSE Some(d.raised_by)

\* admin.py:316-346
users_after_resolve(us, winner, loser) ==
    LET won == [us EXCEPT ![winner].disputes_won = @ + 1]
    IN  IF loser = None THEN won
        ELSE [won EXCEPT ![get(loser)].disputes_lost = @ + 1]

\* A resolution that does not ask whether the dispute is still open.
resolve_dispute_code_any_status(u, d, winner) ==
    IF ~is_admin(u) THEN 403
    ELSE IF d \notin DOMAIN disputes THEN 404
    ELSE 200

\* deps.py:100-120 get_admin_user; admin.py:270-282
resolve_dispute_code(u, d, winner) ==
    IF ~is_admin(u) THEN 403
    ELSE IF d \notin DOMAIN disputes THEN 404
    ELSE IF disputes[d].status # "open" THEN 400
    ELSE 200

resolve_dispute(u, d, winner) ==
    IF resolve_dispute_code(u, d, winner) # 200 THEN UNCHANGED vars
    ELSE LET s == disputes[d].subtask_id
             t == subtask[s].task_id
         IN  /\ disputes' = [disputes EXCEPT ![d].status = "resolved",
                                             ![d].winner_id = Some(winner)]
             /\ subtask' = [subtask EXCEPT ![s] = resolved_row(@, winner)]
             /\ task' = [task EXCEPT ![t] = task_after_resolve(@)]
             /\ users' = users_after_resolve(users, winner,
                             dispute_loser(disputes[d], subtask[s], task[t], winner))
             /\ UNCHANGED <<submissions, chain, configured, score, tier, auth, req>>

\* --------------------------------------------------------- reorder_subtasks
\* ReorderRequest.subtask_ids: a list of ids, of any length, repeats allowed.
ReorderLists == SeqsUpTo(SubtaskIds, MaxReorderLen)

\* subtasks.py:859
reorder_ids_match(sts, t, ids) ==
    {ids[i] : i \in 1..Len(ids)} = subtasks_of(sts, t)

\* subtasks.py:866-867: the loop assigns idx to subtasks[subtask_id] for each
\* position in turn, so a row named more than once keeps its last position.
reordered(sts, ids) ==
    [s \in DOMAIN sts |->
        LET positions == {i \in 1..Len(ids) : ids[i] = s}
        IN  IF positions = {} THEN sts[s]
            ELSE [sts[s] EXCEPT !.sequence_order =
                      CHOOSE i \in positions : \A j \in positions : j <= i]]

reorder_subtasks_code(u, t, ids) ==
    IF ~owner_or_admin(u, task[t]) THEN 403
    ELSE IF ~reorder_ids_match(subtask, t, ids) THEN 400
    ELSE 200

reorder_subtasks(u, t, ids) ==
    IF reorder_subtasks_code(u, t, ids) # 200 THEN UNCHANGED vars
    ELSE /\ subtask' = reordered(subtask, ids)
         /\ UNCHANGED <<task, submissions, disputes, users, chain, configured, score, tier, auth, req>>

\* ------------------------------------------------------ update_current_user
\* UserUpdate: the profile fields a user may send (name, country, bio, skills),
\* each optional; bio stands for the four.  fields_set is the set of fields
\* the request carries (an explicit null is carried, an absent field is not).
UserUpdates == [fields_set : {{}, {"bio"}}, bio : {None, Some("about")}]

\* An update that rebuilds the row from the request.
updated_user_rebuilt(row, update_data) ==
    [NewUser EXCEPT !.bio = update_data.bio]

\* users.py:47-50: model_dump(exclude_unset=True), then setattr per field
updated_user(row, update_data) ==
    IF "bio" \in update_data.fields_set
    THEN [row EXCEPT !.bio = update_data.bio]
    ELSE row

update_current_user(u, update_data) ==
    /\ users' = [users EXCEPT ![u] = updated_user(@, update_data)]
    /\ UNCHANGED <<task, subtask, submissions, disputes, chain, configured, score, tier, auth, req>>

\* ----------------------------------------------- calculate_reputation_score
\* Python's float is IEEE 754 binary64: every operation returns the exact
\* result rounded to 53 significant bits, ties to even.  A float is written
\* [m, e]: m its significant bits, most significant first, and e the weight of
\* the last bit, so that the value is m * 2^e; zero has no bits.
Significand == 53

RECURSIVE Pow2(_)
Pow2(n) == IF n = 0 THEN 1 ELSE 2 * Pow2(n - 1)

RECURSIVE to_bits(_)
to_bits(n) == IF n = 0 THEN <<>> ELSE to_bits(n \div 2) \o <<n % 2>>

RECURSIVE bits_value(_)
bits_value(bits) ==
    IF Len(bits) = 0 THEN 0
    ELSE 2 * bits_value(SubSeq(bits, 1, Len(bits) - 1)) + bits[Len(bits)]

\* bits + 1; one bit longer when every bit is 1
increment(bits) ==
    IF \A i \in 1..Len(bits) : bits[i] = 1
    THEN <<1>> \o [i \in 1..Len(bits) |-> 0]
    ELSE LET k == CHOOSE i \in 1..Len(bits) :
                      bits[i] = 0 /\ \A j \in (i + 1)..Len(bits) : bits[j] = 1
         IN  [i \in 1..Len(bits) |->
                 IF i < k THEN bits[i] ELSE IF i = k THEN 1 ELSE 0]

\* round to nearest, ties to even: bits * 2^e, plus a nonzero tail below the
\* last bit when sticky, becomes a float
round_to_double(bits, sticky, e) ==
    IF Len(bits) <= Significand THEN [m |-> bits, e |-> e]
    ELSE LET keep == SubSeq(bits, 1, Significand)
             guard == bits[Significand + 1]
             rest == sticky \/ \E j \in (Significand + 2)..Len(bits) : bits[j] = 1
             up == guard = 1 /\ (rest \/ keep[Significand] = 1)
             e1 == e + Len(bits) - Significand
             inc == increment(keep)
         IN  IF ~up THEN [m |-> keep, e |-> e1]
             ELSE IF Len(inc) > Significand
                  THEN [m |-> SubSeq(inc, 1, Significand), e |-> e1 + 1]
                  ELSE [m |-> inc, e |-> e1]

\* the n bits of v, most significant first, for 0 <= v < 2^n
padded_bits(v, n) == [i \in 1..n |-> (v \div Pow2(n - i)) % 2]

\* 9 * n quotient bits of rem / c0 below the binary point, nine at a time, and
\* what remains
RECURSIVE long_division(_, _, _)
long_division(rem, c0, n) ==
    IF n = 0 THEN [bits |-> <<>>, rem |-> rem]
    ELSE LET digit == (rem * 512) \div c0
             below == long_division((rem * 512) % c0, c0, n - 1)
         IN  [bits |-> padded_bits(digit, 9) \o below.bits, rem |-> below.rem]

\* users.py:105  int / int, for a >= 0 and c > 0: a and c are scaled by powers
\* of two until c0 <= a0 < 2 * c0, and a0 / c0 is divided out to one bit more
\* than the significand holds
true_divide(a, c) ==
    IF a = 0 THEN [m |-> <<>>, e |-> 0]
    ELSE LET p == CHOOSE i \in 0..16 :
                      a * Pow2(i) >= c /\ \A j \in 0..(i - 1) : a * Pow2(j) < c
             a0 == a * Pow2(p)
             q == CHOOSE i \in 0..16 :
                      c * Pow2(i) <= a0 /\ c * Pow2(i + 1) > a0
             c0 == c * Pow2(q)
             tail == long_division(a0 - c0, c0, 6)
         IN  round_to_double(<<1>> \o tail.bits, tail.rem # 0, q - p - 54)

\* bits * k + carry, for a small integer k, eighteen bits at a time
RECURSIVE times_small(_, _, _)
times_small(bits, k, carry) ==
    IF Len(bits) = 0 THEN to_bits(carry)
    ELSE LET n == IF Len(bits) < 18 THEN Len(bits) ELSE 18
             low == bits_value(SubSeq(bits, Len(bits) - n + 1, Len(bits)))
             t == low * k + carry
         IN  times_small(SubSeq(bits, 1, Len(bits) - n), k, t \div Pow2(n))
                 \o padded_bits(t % Pow2(n), n)

\* users.py:106  float * int
float_times(x, k) ==
    IF Len(x.m) = 0 THEN x
    ELSE round_to_double(times_small(x.m, k, 0), FALSE, x.e)

\* users.py:106  int(float), for a float that is not negative: truncation
int_of(x) ==
    IF x.e >= 0 THEN bits_value(x.m) * Pow2(x.e)
    ELSE IF Len(x.m) + x.e <= 0 THEN 0
    ELSE bits_value(SubSeq(x.m, 1, Len(x.m) + x.e))

min(a, b) == IF a <= b THEN a ELSE b

\* users.py:88-113
calculate_reputation_score(user) ==
    LET completed == min(user.tasks_completed * 10, 500)
        bonus == IF user.tasks_completed > 0
                 THEN int_of(float_times(
                          true_divide(user.tasks_approved, user.tasks_completed),
                          200))
                 ELSE 0
        total == completed + bonus
                 + user.disputes_won * 20 - user.disputes_lost * 50
    IN  IF total >= 0 THEN total ELSE 0    \* max(total, 0)

\* ------------------------------------------------------------ calculate_tier
\* float >= float, for floats that are not negative; nonzero floats carry the
\* same number of significant bits
float_ge(x, y) ==
    IF Len(y.m) = 0 THEN TRUE
    ELSE IF Len(x.m) = 0 THEN FALSE
    ELSE \/ x.e > y.e
         \/ /\ x.e = y.e
            /\ \/ x.m = y.m
               \/ \E i \in 1..Len(x.m) :
                      /\ x.m[i] > y.m[i]
                      /\ \A j \in 1..(i - 1) : x.m[j] = y.m[j]

\* A tier that does not look at the approval rate.
calculate_tier_no_rate(sc, tasks_completed, tasks_approved) ==
    IF tasks_completed = 0 THEN "new"
    ELSE IF tasks_completed >= 50 /\ sc >= 600 THEN "expert"
    ELSE IF tasks_completed >= 20 /\ sc >= 300 THEN "established"
    ELSE IF tasks_completed >= 5 /\ sc >= 50 THEN "active"
    ELSE "new"

\* users.py:116-140; the float literals 0.9 and 0.8 are the doubles nearest
\* 9/10 and 8/10
calculate_tier(sc, tasks_completed, tasks_approved) ==
    IF tasks_completed = 0 THEN "new"
    ELSE LET approval_rate == true_divide(tasks_approved, tasks_completed)
         IN  IF /\ tasks_completed >= 50
                /\ float_ge(approval_rate, true_divide(9, 10))
                /\ sc >= 600
             THEN "expert"
             ELSE IF /\ tasks_completed >= 20
                     /\ float_ge(approval_rate, true_divide(8, 10))
                     /\ sc >= 300
             THEN "established"
             ELSE IF tasks_completed >= 5 /\ sc >= 50 THEN "active"
             ELSE "new"

\* -------------------------------------------------------------------- Next
\* Spec is the lifecycle: every handler, called by every user on every subtask,
\* task and dispute.  To keep it finite and small, work is claimed by the two
\* workers and without collaborators (SpecClaim covers the claim body),
\* submissions carry no artifact, and subtasks are created in sequence.
ClaimSubtask ==
    \E u \in Workers, s \in SubtaskIds : claim_subtask(u, s, None)
UnclaimSubtask == \E u \in Users, s \in SubtaskIds : unclaim_subtask(u, s)
SubmitWork ==
    /\ Len(submissions) < MaxSubmissions
    /\ \E u \in Users, s \in SubtaskIds : submit_work(u, s, "none")
ApproveSubtask ==
    \E u \in Users, s \in SubtaskIds, o \in PaymentOutcomes : approve_subtask(u, s, o)
RejectSubtask == \E u \in Users, s \in SubtaskIds : reject_subtask(u, s)
CreateDispute ==
    /\ Len(disputes) < MaxDisputes
    /\ \E u \in Users, s \in SubtaskIds : create_dispute(u, s)
CreateSubtask ==
    /\ Cardinality(DOMAIN subtask) < MaxSubtasks
    /\ \E u \in Users, t \in Tasks : create_subtask(u, t, next_subtask_id)
FundTask == \E u \in Users, t \in Tasks, tx \in TxHashes : fund_task(u, t, tx)
CancelTask == \E u \in Users, t \in Tasks : cancel_task(u, t)
CompleteTask == \E u \in Users, t \in Tasks : complete_task(u, t)
ResolveDispute ==
    \E u \in Users, d \in 1..MaxDisputes, winner \in Users : resolve_dispute(u, d, winner)

Next ==
    \/ ClaimSubtask
    \/ UnclaimSubtask
    \/ SubmitWork
    \/ ApproveSubtask
    \/ RejectSubtask
    \/ CreateDispute
    \/ CreateSubtask
    \/ FundTask
    \/ CancelTask
    \/ CompleteTask
    \/ ResolveDispute

Spec == Init /\ [][Next]_vars

\* SpecClaim is the claim handler with its whole request body (collaborator
\* wallets and splits), on subtasks of a funded task.
ClaimWithRequest ==
    \E u \in Workers, s \in SubtaskIds, r \in ClaimRequests : claim_subtask(u, s, r)

NextClaim ==
    \/ ClaimWithRequest
    \/ UnclaimSubtask
    \/ CreateSubtask
    \/ FundTask

SpecClaim == Init /\ [][NextClaim]_vars

\* SpecDispute is the lifecycle with a second dispute: disputes may be raised
\* again, on the same subtask or on its sibling, while one is open or after it
\* is resolved.  The calls are those of the parties to the work: the task's
\* client and the worker w1, and the admin who resolves.
Parties == {"client", "w1"}

CreateDisputeAgain ==
    /\ Len(disputes) < MaxDisputesRaised
    /\ \E u \in Parties, s \in SubtaskIds : create_dispute(u, s)
ResolveAnyDispute ==
    \E d \in 1..MaxDisputesRaised, winner \in Parties :
        resolve_dispute("admin", d, winner)
PartiesWork ==
    \/ \E s \in SubtaskIds : claim_subtask("w1", s, None)
    \/ \E s \in SubtaskIds : unclaim_subtask("w1", s)
    \/ /\ Len(submissions) < MaxSubmissions
       /\ \E s \in SubtaskIds : submit_work("w1", s, "none")
PartiesReview ==
    \/ \E s \in SubtaskIds, o \in PaymentOutcomes : approve_subtask("client", s, o)
    \/ \E s \in SubtaskIds : reject_subtask("client", s)
PartiesTask ==
    \/ /\ Cardinality(DOMAIN subtask) < MaxSubtasks
       /\ \E t \in Tasks : create_subtask("client", t, next_subtask_id)
    \/ \E t \in Tasks : fund_task("client", t, "tx_ok")
    \/ \E t \in Tasks : cancel_task("client", t)
    \/ \E t \in Tasks : complete_task("client", t)

NextDispute ==
    \/ PartiesWork
    \/ PartiesReview
    \/ PartiesTask
    \/ CreateDisputeAgain
    \/ ResolveAnyDispute

SpecDispute == Init /\ [][NextDispute]_vars

\* SpecSubmit is the submission handler with its artifact, called by every user
\* on subtasks claimed with or without collaborators, and the review that
\* rejects the work and lets it be submitted again.
SubmitWithArtifact ==
    /\ Len(submissions) < MaxSubmissions
    /\ \E u \in Users, s \in SubtaskIds, a \in Artifacts : submit_work(u, s, a)

NextSubmit ==
    \/ ClaimWithRequest
    \/ SubmitWithArtifact
    \/ RejectSubtask
    \/ CreateSubtask
    \/ FundTask

SpecSubmit == Init /\ [][NextSubmit]_vars

\* SpecFrame is SpecDispute with the parties editing their profiles.
UpdateCurrentUser ==
    \E u \in Parties, update_data \in UserUpdates : update_current_user(u, update_data)

NextFrame ==
    \/ NextDispute
    \/ UpdateCurrentUser

SpecFrame == Init /\ [][NextFrame]_vars

\* SpecReorder: subtasks are created, claimed and given back, and reordered.
ReorderSubtasks ==
    \E u \in Users, t \in Tasks, ids \in ReorderLists : reorder_subtasks(u, t, ids)

NextReorder ==
    \/ CreateSubtask
    \/ FundTask
    \/ ClaimSubtask
    \/ UnclaimSubtask
    \/ ReorderSubtasks

SpecReorder == Init /\ [][NextReorder]_vars

\* SpecScore: the score of a user row with any counters within the bounds.
InitScore ==
    /\ task = [t \in Tasks |-> NewTask("client")]
    /\ subtask = [s \in {} |-> 0]
    /\ submissions = <<>>
    /\ disputes = <<>>
    /\ users \in {[u \in Users |-> IF u = "w1" THEN row ELSE NewUser] :
                     row \in [tasks_completed : 0..MaxTasksCompleted,
                              tasks_approved : 0..MaxTasksApproved,
                              disputes_won : 0..MaxDisputesWon,
                              disputes_lost : 0..MaxDisputesLost,
                              bio : {None}]}
    /\ chain = [taskCounter |-> 0, released |-> [s \in SubtaskIds |-> 0]]
    /\ configured = FALSE
    /\ req = [r \in ReqIds |-> IdleRequest]
    /\ score = None
    /\ tier = None
    /\ auth = NoAuth

CalculateReputationScore ==
    /\ score = None
    /\ score' = Some(calculate_reputation_score(users["w1"]))
    /\ UNCHANGED <<store, configured, req, tier, auth>>

SpecScore == InitScore /\ [][CalculateReputationScore]_vars

\* SpecTier: the tier of any score around the thresholds and any counters
\* within the bounds.
Scores == {0, 49, 50, 299, 300, 599, 600, 700}

InitTier ==
    /\ task = [t \in Tasks |-> NewTask("client")]
    /\ subtask = [s \in {} |-> 0]
    /\ submissions = <<>>
    /\ disputes = <<>>
    /\ users \in {[u \in Users |-> IF u = "w1" THEN row ELSE NewUser] :
                     row \in [tasks_completed : 0..MaxTasksCompleted,
                              tasks_approved : 0..MaxTasksApproved,
                              disputes_won : {0},
                              disputes_lost : {0},
                              bio : {None}]}
    /\ chain = [taskCounter |-> 0, released |-> [s \in SubtaskIds |-> 0]]
    /\ configured = FALSE
    /\ req = [r \in ReqIds |-> IdleRequest]
    /\ score \in {Some(sc) : sc \in Scores}
    /\ tier = None
    /\ auth = NoAuth

CalculateTier ==
    /\ tier = None
    /\ tier' = Some(calculate_tier(get(score), users["w1"].tasks_completed,
                                   users["w1"].tasks_approved))
    /\ UNCHANGED <<store, configured, req, score, auth>>

SpecTier == InitTier /\ [][CalculateTier]_vars

\* ------------------------------------------------------------ SpecRace
\* The handlers are coroutines: every `await db.execute(...)` is a point where
\* another request runs.  Each request has an AsyncSession of its own; a SELECT
\* loads a row into it, the handler decides on what it loaded, and flush issues
\* UPDATE ... WHERE id = ... for the attributes the handler changed.  No SELECT
\* is FOR UPDATE and no row carries a version, so the UPDATE is unconditional.
flush(current, loaded, new) ==
    [f \in DOMAIN current |-> IF new[f] # loaded[f] THEN new[f] ELSE current[f]]

Done(r, code) == [req EXCEPT ![r].pc = "done", ![r].code = code]

\* subtasks.py:136-149
ClaimLoadSubtask(r, u, s) ==
    /\ req[r].pc = "idle"
    /\ LET q == [req[r] EXCEPT !.op = "claim", !.user = u, !.sid = s]
       IN  req' = IF s \notin DOMAIN subtask
                    THEN [req EXCEPT ![r] = [q EXCEPT !.pc = "done", !.code = 404]]
                  ELSE IF ~claim_status_ok(subtask[s])
                    THEN [req EXCEPT ![r] = [q EXCEPT !.pc = "done", !.code = 400]]
                  ELSE [req EXCEPT ![r] = [q EXCEPT !.pc = "claim_task",
                                                    !.st = Some(subtask[s])]]
    /\ UNCHANGED <<store, configured, score, tier, auth>>

\* subtasks.py:152-159
ClaimLoadTask(r) ==
    /\ req[r].pc = "claim_task"
    /\ LET tk == task[get(req[r].st).task_id]
       IN  req' = IF ~claim_task_ok(tk) THEN Done(r, 400)
                  ELSE [req EXCEPT ![r].pc = "claim_flush", ![r].tk = Some(tk)]
    /\ UNCHANGED <<store, configured, score, tier, auth>>

\* subtasks.py:193-203
ClaimFlush(r) ==
    /\ req[r].pc = "claim_flush"
    /\ LET st == get(req[r].st)
           tk == get(req[r].tk)
       IN  /\ subtask' = [subtask EXCEPT ![req[r].sid] =
                             flush(@, st, claimed_row(st, req[r].user, None))]
           /\ task' = [task EXCEPT ![st.task_id] = flush(@, tk, task_after_claim(tk))]
    /\ req' = Done(r, 200)
    /\ UNCHANGED <<submissions, disputes, users, chain, configured, score, tier, auth>>

\* tasks.py:305-324
CancelLoadTask(r, u, t) ==
    /\ req[r].pc = "idle"
    /\ LET q == [req[r] EXCEPT !.op = "cancel", !.user = u, !.tid = t]
       IN  req' = IF ~owner_or_admin(u, task[t])
                    THEN [req EXCEPT ![r] = [q EXCEPT !.pc = "done", !.code = 403]]
                  ELSE IF ~cancel_status_ok(task[t])
                    THEN [req EXCEPT ![r] = [q EXCEPT !.pc = "done", !.code = 400]]
                  ELSE [req EXCEPT ![r] = [q EXCEPT !.pc = "cancel_check",
                                                    !.tk = Some(task[t])]]
    /\ UNCHANGED <<store, configured, score, tier, auth>>

\* tasks.py:326-339
CancelCheckSubtasks(r) ==
    /\ req[r].pc = "cancel_check"
    /\ req' = IF active_subtasks(subtask, req[r].tid) # {} THEN Done(r, 400)
              ELSE [req EXCEPT ![r].pc = "cancel_flush"]
    /\ UNCHANGED <<store, configured, score, tier, auth>>

\* tasks.py:341-342
CancelFlush(r) ==
    /\ req[r].pc = "cancel_flush"
    /\ LET tk == get(req[r].tk)
       IN  task' = [task EXCEPT ![req[r].tid] =
                       flush(@, tk, [tk EXCEPT !.status = "cancelled"])]
    /\ req' = Done(r, 200)
    /\ UNCHANGED <<subtask, submissions, disputes, users, chain, configured, score, tier, auth>>

RaceClaim ==
    \/ \E r \in ReqIds, u \in Workers, s \in SubtaskIds : ClaimLoadSubtask(r, u, s)
    \/ \E r \in ReqIds : ClaimLoadTask(r)
    \/ \E r \in ReqIds : ClaimFlush(r)

RaceCancel ==
    \/ \E r \in ReqIds, u \in Users, t \in Tasks : CancelLoadTask(r, u, t)
    \/ \E r \in ReqIds : CancelCheckSubtasks(r)
    \/ \E r \in ReqIds : CancelFlush(r)

NextRace ==
    \/ RaceClaim
    \/ RaceCancel
    \/ CreateSubtask
    \/ FundTask

SpecRace == Init /\ [][NextRace]_vars

\* SpecIndex: subtasks are created with any sequence_order the schema admits
\* (SubtaskCreate.sequence_order >= 1), reordered, worked on and approved.
CreateSubtaskAt ==
    /\ Cardinality(DOMAIN subtask) < MaxSubtasks
    /\ \E u \in Users, t \in Tasks, order \in 1..MaxSubtasks :
           create_subtask(u, t, order)

NextIndex ==
    \/ CreateSubtaskAt
    \/ FundTask
    \/ ReorderSubtasks
    \/ ClaimSubtask
    \/ SubmitWork
    \/ ApproveSubtask

SpecIndex == Init /\ [][NextIndex]_vars

\* SpecFund: several tasks, each deposited on chain by its client and then
\* reported to the backend with a fund request.
FundTasks == {"t1", "t2", "t3"}

InitFund ==
    /\ task = [t \in FundTasks |-> NewTask("client")]
    /\ subtask = [s \in {} |-> 0]
    /\ submissions = <<>>
    /\ disputes = <<>>
    /\ users = [u \in Users |-> NewUser]
    /\ chain = [taskCounter |-> 0, released |-> [s \in SubtaskIds |-> 0],
                deposited |-> [t \in FundTasks |-> FALSE]]
    /\ configured \in BOOLEAN
    /\ req = [r \in ReqIds |-> IdleRequest]
    /\ score = None
    /\ tier = None
    /\ auth = NoAuth

\* The escrow contract's deposit: it creates the on-chain task and advances
\* taskCounter.
Deposit(t) ==
    /\ ~chain.deposited[t]
    /\ chain' = [chain EXCEPT !.taskCounter = @ + 1, !.deposited[t] = TRUE]
    /\ UNCHANGED <<task, subtask, submissions, disputes, users, configured, req,
                   score, tier, auth>>

\* The fund request of a task whose deposit is on chain.
FundAfterDeposit ==
    \E u \in Users, t \in FundTasks, tx \in TxHashes :
        /\ chain.deposited[t]
        /\ fund_task(u, t, tx)

NextFund ==
    \/ \E t \in FundTasks : Deposit(t)
    \/ FundAfterDeposit

SpecFund == InitFund /\ [][NextFund]_vars

\* ----------------------------------------------------------- SpecApproveRace
\* approve_subtask as the coroutine it is, one action per await.
\* subtasks.py:386-393
ApproveLoadSubtask(r, u, s) ==
    /\ req[r].pc = "idle"
    /\ LET q == [req[r] EXCEPT !.op = "approve", !.user = u, !.sid = s]
       IN  req' = IF s \notin DOMAIN subtask
                    THEN [req EXCEPT ![r] = [q EXCEPT !.pc = "done", !.code = 404]]
                  ELSE [req EXCEPT ![r] = [q EXCEPT !.pc = "approve_task",
                                                    !.st = Some(subtask[s])]]
    /\ UNCHANGED <<store, configured, score, tier, auth>>

\* subtasks.py:396-415
ApproveLoadTask(r) ==
    /\ req[r].pc = "approve_task"
    /\ LET tk == task[get(req[r].st).task_id]
       IN  req' = IF ~review_authorized(req[r].user, tk) THEN Done(r, 403)
                  ELSE IF ~review_status_ok(get(req[r].st)) THEN Done(r, 400)
                  ELSE [req EXCEPT ![r].pc = "approve_submission", ![r].tk = Some(tk)]
    /\ UNCHANGED <<store, configured, score, tier, auth>>

\* subtasks.py:418-424
ApproveLoadSubmission(r) ==
    /\ req[r].pc = "approve_submission"
    /\ req' = [req EXCEPT ![r].pc = IF get(req[r].st).claimed_by # None
                                    THEN "approve_worker" ELSE "approve_flush",
                          ![r].sub = latest_submission(submissions, req[r].sid)]
    /\ UNCHANGED <<store, configured, score, tier, auth>>

\* subtasks.py:427-439: the worker row is loaded; the handler goes on to the
\* gateway when the payment is to be attempted, and to its writes otherwise
ApproveLoadWorker(r) ==
    /\ req[r].pc = "approve_worker"
    /\ req' = [req EXCEPT
                  ![r].pc = IF payment_attempted(get(req[r].st), get(req[r].tk))
                            THEN "approve_pay" ELSE "approve_flush",
                  ![r].worker = Some(users[get(get(req[r].st).claimed_by)])]
    /\ UNCHANGED <<store, configured, score, tier, auth>>

\* subtasks.py:444-460: the index query and the call of approve_subtask_payment
ApprovePay(r, outcome) ==
    /\ req[r].pc = "approve_pay"
    /\ req' = [req EXCEPT ![r].pc = "approve_flush", ![r].called = TRUE,
                          ![r].tx = (outcome = "paid")]
    /\ chain' = [chain EXCEPT !.released[req[r].sid] =
                                  IF outcome = "paid" THEN @ + 1 ELSE @]
    /\ UNCHANGED <<task, subtask, submissions, disputes, users, configured, score, tier, auth>>

\* subtasks.py:462-480
ApproveFlush(r) ==
    /\ req[r].pc = "approve_flush"
    /\ LET st == get(req[r].st)
           i == req[r].sub
       IN  /\ submissions' =
                  IF i = 0 THEN submissions
                  ELSE [submissions EXCEPT ![i].status = "approved",
                                           ![i].payment_tx_hash = (@ \/ req[r].tx)]
           /\ subtask' = [subtask EXCEPT ![req[r].sid] =
                             flush(@, st, [st EXCEPT !.status = "approved"])]
           /\ users' =
                  IF req[r].worker = None THEN users
                  ELSE LET w == get(req[r].worker)
                       IN  [users EXCEPT ![get(st.claimed_by)] =
                               flush(@, w, [w EXCEPT !.tasks_completed = @ + 1,
                                                     !.tasks_approved = @ + 1])]
    /\ req' = Done(r, 200)
    /\ UNCHANGED <<task, disputes, chain, configured, score, tier, auth>>

RaceApprove ==
    \/ \E r \in ReqIds, u \in Users, s \in SubtaskIds : ApproveLoadSubtask(r, u, s)
    \/ \E r \in ReqIds : ApproveLoadTask(r)
    \/ \E r \in ReqIds : ApproveLoadSubmission(r)
    \/ \E r \in ReqIds : ApproveLoadWorker(r)
    \/ \E r \in ReqIds, outcome \in PaymentOutcomes : ApprovePay(r, outcome)
    \/ \E r \in ReqIds : ApproveFlush(r)

NextApproveRace ==
    \/ RaceApprove
    \/ CreateSubtask
    \/ FundTask
    \/ ClaimSubtask
    \/ SubmitWork

SpecApproveRace == Init /\ [][NextApproveRace]_vars

\* ---------------------------------------------------------------- SpecAuth
\* Wallet login (auth.py). nonce_cache is the process-wide TTLCache keyed by
\* the lower-cased wallet address. create_nonce draws 16 random bytes
\* (security.py:12-15): every nonce issued is a new value, numbered here in
\* the order of issue. auth.latest and auth.verified are history: the nonce
\* last issued per wallet and, per nonce, the verifications that succeeded.
\* A request spells the wallet in mixed or in lower case; a signature is
\* the account whose key signed and the nonce of the message it signed.

\* POST /auth/nonce
get_nonce(w) ==
    LET wallet == lower(w)[1]
        nonce == auth.issued + 1
    IN  /\ auth.issued < MaxNonces
        /\ auth' = [auth EXCEPT !.nonce_cache[wallet] = Some(nonce),
                                !.issued = nonce,
                                !.latest[wallet] = Some(nonce),
                                !.verified = Append(@, 0)]
        /\ UNCHANGED <<store, configured, req, score, tier>>

\* TTLCache drops an entry 300 seconds after it was stored.
nonce_expires(wallet) ==
    /\ auth.nonce_cache[wallet] # None
    /\ auth' = [auth EXCEPT !.nonce_cache[wallet] = None]
    /\ UNCHANGED <<store, configured, req, score, tier>>

\* The address recovered from the signature over the message of this nonce
\* is the signer's when the signed message is that message, and another
\* address otherwise.
verify_signature(wallet, nonce, signature) ==
    signature.signer = wallet /\ signature.nonce = nonce

\* A verification that accepts whatever nonce is presented while one is stored.
verify_wallet_code_any_nonce(w, nonce, signature) ==
    LET wallet == lower(w)[1]
        stored_nonce == auth.nonce_cache[wallet]
    IN  IF stored_nonce = None THEN 400
        ELSE IF ~verify_signature(wallet, nonce, signature) THEN 400
        ELSE 200

verify_wallet_code(w, nonce, signature) ==
    LET wallet == lower(w)[1]
        stored_nonce == auth.nonce_cache[wallet]
    IN  IF stored_nonce = None \/ stored_nonce # Some(nonce) THEN 400
        ELSE IF ~verify_signature(wallet, nonce, signature) THEN 400
        ELSE 200

\* POST /auth/verify
verify_wallet(w, nonce, signature) ==
    IF verify_wallet_code(w, nonce, signature) # 200 THEN UNCHANGED vars
    ELSE /\ auth' = [auth EXCEPT !.nonce_cache[lower(w)[1]] = None,
                                 !.verified[nonce] = @ + 1]
         /\ UNCHANGED <<store, configured, req, score, tier>>

NextAuth ==
    \/ \E w \in Workers \X {"mixed", "lower"} : get_nonce(w)
    \/ \E wallet \in Workers : nonce_expires(wallet)
    \/ \E w \in Workers \X {"mixed", "lower"}, nonce \in 1..MaxNonces,
          signature \in [signer : Workers, nonce : 1..MaxNonces] :
            verify_wallet(w, nonce, signature)

SpecAuth == Init /\ [][NextAuth]_vars

\* ================================================================== claims

\* C1: when two workers' claim requests on the same open subtask interleave,
\* exactly one succeeds and the other is rejected (400, not available for
\* claiming); the second claimer never overwrites claimed_by.  Stated on the
\* requests that are done: two claims of one subtask never both answer 200.
C1_OneClaimWins ==
    \A r1 \in ReqIds, r2 \in ReqIds :
        ( /\ r1 # r2
          /\ req[r1].pc = "done" /\ req[r1].op = "claim"
          /\ req[r2].pc = "done" /\ req[r2].op = "claim"
          /\ req[r1].user # req[r2].user
          /\ req[r1].sid = req[r2].sid )
        => ~(req[r1].code = 200 /\ req[r2].code = 200)

\* C8: under any interleaving of a cancel of a task and a claim of one of its
\* open subtasks, the task is never cancelled while a child subtask is claimed,
\* in_progress or submitted.
C8_NoCancelledTaskWithActiveChild ==
    \A t \in Tasks :
        task[t].status = "cancelled" =>
            ~(\E s \in DOMAIN subtask :
                /\ subtask[s].task_id = t
                /\ subtask[s].status \in {"claimed", "in_progress", "submitted"})

\* C2: a claim succeeds only if the subtask is open and its task is funded,
\* decomposed or in_progress; in every other state the claim is rejected
\* (400, or 404 for a subtask that does not exist) and the handler changes
\* neither the subtask nor the task.  A claim that succeeds leaves the subtask
\* claimed by the caller.
C2_ClaimOnlyOpenSubtaskOfActiveTask ==
    \A u \in Workers, s \in SubtaskIds, r \in ClaimRequests :
        LET claimable ==
                /\ s \in DOMAIN subtask
                /\ subtask[s].status = "open"
                /\ task[subtask[s].task_id].status \in
                       {"funded", "decomposed", "in_progress"}
        IN  /\ claim_subtask_code(u, s, r) = 200 => claimable
            /\ claimable =>
                   ~ENABLED (/\ claim_subtask(u, s, r)
                             /\ claim_subtask_code(u, s, r) = 200
                             /\ ~(/\ subtask'[s].status = "claimed"
                                  /\ subtask'[s].claimed_by = Some(u)))
            /\ ~claimable =>
                   /\ claim_subtask_code(u, s, r) \in {400, 404}
                   /\ ~ENABLED (/\ claim_subtask(u, s, r)
                                /\ (subtask' # subtask \/ task' # task))

\* C2 witness: a subtask that a claim left claimed while its task is in
\* progress, and on which a further claim is rejected.
C2_Witness ==
    \E s \in DOMAIN subtask, u \in Workers :
        /\ subtask[s].status = "claimed"
        /\ subtask[s].claimed_by # None
        /\ task[subtask[s].task_id].status = "in_progress"
        /\ claim_subtask_code(u, s, None) = 400

\* C3: over any sequence of operations (a dispute of an approved subtask, its
\* resolution against the worker, a resubmission and a second approval
\* included) the escrow payment of one subtask is released at most once.
C3_PaymentReleasedAtMostOnce ==
    \A s \in SubtaskIds : chain.released[s] <= 1

\* C4: once a subtask is approved, a further approve is rejected (400 for the
\* task's client and the admin: the status is no longer submitted) and the
\* claimant's tasks_completed and tasks_approved are not incremented again.
C4_SecondApproveRejected ==
    \A s \in DOMAIN subtask :
        subtask[s].status = "approved" =>
            \A u \in Users, o \in PaymentOutcomes :
                /\ approve_subtask_code(u, s) # 200
                /\ (task[subtask[s].task_id].client_id = u \/ u = "admin")
                       => approve_subtask_code(u, s) = 400
                /\ ~ENABLED (/\ approve_subtask(u, s, o)
                             /\ \/ users' # users
                                \/ subtask' # subtask
                                \/ chain' # chain)

\* C4 witness: a subtask approved once, its claimant counted once, on which the
\* client's second approve answers 400.
C4_Witness ==
    \E s \in DOMAIN subtask :
        /\ subtask[s].status = "approved"
        /\ latest_submission(submissions, s) # 0
        /\ submissions[latest_submission(submissions, s)].status = "approved"
        /\ users[get(subtask[s].claimed_by)].tasks_completed = 1
        /\ users[get(subtask[s].claimed_by)].tasks_approved = 1
        /\ approve_subtask_code("client", s) = 400

\* C5: an approve of a submitted subtask whose task has an escrow binding, and
\* whose payment release fails or times out, still succeeds: the subtask is
\* approved, its latest submission is approved, the claimant's tasks_completed
\* and tasks_approved rise by one each, the submission's payment_tx_hash stays
\* unset and nothing is released.
C5_ApproveSurvivesPaymentFailure ==
    [][\A u \in Users, s \in SubtaskIds :
        ( /\ s \in DOMAIN subtask
          /\ subtask[s].status = "submitted"
          /\ task[subtask[s].task_id].escrow_contract_task_id # None
          /\ (task[subtask[s].task_id].client_id = u \/ u = "admin")
          /\ approve_subtask(u, s, "failed") )
        => LET i == latest_submission(submissions, s)
               w == get(subtask[s].claimed_by)
           IN  /\ subtask'[s].status = "approved"
               /\ i # 0
               /\ submissions'[i].status = "approved"
               /\ submissions'[i].payment_tx_hash = FALSE
               /\ users'[w].tasks_completed = users[w].tasks_completed + 1
               /\ users'[w].tasks_approved = users[w].tasks_approved + 1
               /\ chain'.released = chain.released
    ]_vars

\* C5 witness: the gateway is configured and the task bound to the escrow, the
\* subtask and its latest submission are approved, the claimant is counted, and
\* no payment was released nor a payment hash recorded.
C5_Witness ==
    \E s \in DOMAIN subtask :
        /\ configured
        /\ task[subtask[s].task_id].escrow_contract_task_id # None
        /\ subtask[s].status = "approved"
        /\ latest_submission(submissions, s) # 0
        /\ submissions[latest_submission(submissions, s)].status = "approved"
        /\ submissions[latest_submission(submissions, s)].payment_tx_hash = FALSE
        /\ chain.released[s] = 0
        /\ users[get(subtask[s].claimed_by)].tasks_completed = 1
        /\ users[get(subtask[s].claimed_by)].tasks_approved = 1

\* C6: once a task is completed or cancelled its status never changes: a
\* dispute on a child does not set it to disputed and a resolution does not set
\* it to in_progress.
C6_TerminalTaskNeverChanges ==
    [][\A t \in Tasks :
        task[t].status \in {"completed", "cancelled"}
            => task'[t].status = task[t].status]_vars

\* C7 as the specification states it: a cancel by the task's owner or the admin
\* fails if and only if at least one child subtask is claimed, in_progress or
\* submitted.
C7_CancelFailsIffActiveChild ==
    \A u \in Users, t \in Tasks :
        (task[t].client_id = u \/ u = "admin") =>
            ( cancel_task_code(u, t) # 200
              <=> \E s \in DOMAIN subtask :
                      /\ subtask[s].task_id = t
                      /\ subtask[s].status \in {"claimed", "in_progress", "submitted"} )

\* C7, amended: a cancel by the task's owner or the admin fails (400, the task
\* unchanged) if and only if the task is not draft, funded or decomposed, or at
\* least one child subtask is claimed, in_progress or submitted; otherwise it
\* leaves the task cancelled.
C7_CancelFailsIffStatusOrActiveChild ==
    \A u \in Users, t \in Tasks :
        (task[t].client_id = u \/ u = "admin") =>
            LET blocked ==
                    \/ task[t].status \notin {"draft", "funded", "decomposed"}
                    \/ \E s \in DOMAIN subtask :
                           /\ subtask[s].task_id = t
                           /\ subtask[s].status \in
                                  {"claimed", "in_progress", "submitted"}
            IN  /\ cancel_task_code(u, t) # 200 <=> blocked
                /\ blocked =>
                       /\ cancel_task_code(u, t) = 400
                       /\ ~ENABLED (cancel_task(u, t) /\ task' # task)
                /\ ~blocked =>
                       /\ ENABLED (cancel_task(u, t) /\ task'[t].status = "cancelled")
                       /\ ~ENABLED (cancel_task(u, t) /\ task'[t].status # "cancelled")

\* C7 witness: a task cancelled by a cancel that found a child subtask, none of
\* them claimed, in_progress or submitted, and that now refuses a second cancel
\* for its status alone.
C7_Witness ==
    \E t \in Tasks :
        /\ task[t].status = "cancelled"
        /\ \E s \in DOMAIN subtask : subtask[s].task_id = t
        /\ \A s \in DOMAIN subtask :
               subtask[s].status \notin {"claimed", "in_progress", "submitted"}
        /\ cancel_task_code(task[t].client_id, t) = 400

\* C9: a complete by the task's owner or the admin succeeds, leaving the task
\* completed with completed_at set, if and only if the task has at least one
\* subtask and all its subtasks are approved; when it fails (400) the task's
\* status is unchanged.
C9_CompleteIffAllSubtasksApproved ==
    \A u \in Users, t \in Tasks :
        (task[t].client_id = u \/ u = "admin") =>
            LET children == {s \in DOMAIN subtask : subtask[s].task_id = t}
                ready == /\ children # {}
                         /\ \A s \in children : subtask[s].status = "approved"
            IN  /\ complete_task_code(u, t) = 200 <=> ready
                /\ ready =>
                       /\ ENABLED (/\ complete_task(u, t)
                                   /\ task'[t].status = "completed"
                                   /\ task'[t].completed_at = TRUE)
                       /\ ~ENABLED (/\ complete_task(u, t)
                                    /\ ~(/\ task'[t].status = "completed"
                                         /\ task'[t].completed_at = TRUE))
                /\ ~ready =>
                       /\ complete_task_code(u, t) = 400
                       /\ ~ENABLED (complete_task(u, t) /\ task' # task)

\* C9 witness: a completed task, completed_at set, whose subtasks (two of them)
\* are all approved.
C9_Witness ==
    \E t \in Tasks :
        /\ task[t].status = "completed"
        /\ task[t].completed_at = TRUE
        /\ Cardinality({s \in DOMAIN subtask : subtask[s].task_id = t}) = 2
        /\ \A s \in DOMAIN subtask : subtask[s].status = "approved"

\* C10 as the specification states it: right after a successful claim with
\* collaborators and splits, the stored collaborator_splits has
\* len(collaborators) + 1 entries, the claimant's first, and sums to exactly 100.
C10_StoredSplitsIncludeClaimant ==
    [][\A u \in Workers, s \in SubtaskIds, r \in ClaimRequests :
        ( /\ has_collaborators(r) /\ has_splits(r)
          /\ claim_subtask_code(u, s, r) = 200
          /\ claim_subtask(u, s, r) )
        => /\ subtask'[s].collaborators # None
           /\ subtask'[s].collaborator_splits # None
           /\ Len(get(subtask'[s].collaborator_splits))
                  = Len(get(subtask'[s].collaborators)) + 1
           /\ sum(get(subtask'[s].collaborator_splits)) = 100000
    ]_vars

\* C10, amended: right after a successful claim with collaborators and splits,
\* the request's splits had len(collaborators) + 1 entries summing to exactly
\* 100, and the stored collaborator_splits has len(collaborators) entries: the
\* request's splits without the first (the claimant's), each rounded to the two
\* decimals the column keeps.
C10_StoredSplitsAreCollaboratorsOnly ==
    [][\A u \in Workers, s \in SubtaskIds, r \in ClaimRequests :
        ( /\ has_collaborators(r) /\ has_splits(r)
          /\ claim_subtask_code(u, s, r) = 200
          /\ claim_subtask(u, s, r) )
        => LET given == get(get(r).splits)
               stored == get(subtask'[s].collaborator_splits)
           IN  /\ subtask'[s].collaborators # None
               /\ subtask'[s].collaborator_splits # None
               /\ Len(given) = Len(get(subtask'[s].collaborators)) + 1
               /\ sum(given) = 100000
               /\ Len(stored) = Len(get(subtask'[s].collaborators))
               /\ \A i \in 1..Len(stored) :
                      stored[i] = ((given[i + 1] + 5) \div 10) * 10
    ]_vars

\* C10 witness: a subtask claimed with one collaborator and one stored split,
\* what the column keeps of the second of the two splits given.
C10_Witness ==
    \E s \in DOMAIN subtask :
        /\ subtask[s].status = "claimed"
        /\ subtask[s].collaborators = Some(<<"w2">>)
        /\ subtask[s].collaborator_splits \in {Some(<<40000>>), Some(<<60000>>)}

\* C11: in every reachable state a subtask's collaborators field is set if and
\* only if its collaborator_splits field is set; no claim (with collaborators
\* but no splits, with splits but no collaborators) and no unclaim stores one
\* without the other.
C11_CollaboratorsIffSplits ==
    \A s \in DOMAIN subtask :
        subtask[s].collaborators # None <=> subtask[s].collaborator_splits # None

\* C12: a claim that names collaborators and either contains a wallet that
\* resolves to no user, or gives splits whose length differs from
\* len(collaborators) + 1, or gives splits whose sum differs from 100, is
\* rejected (400) before any mutation: the subtask stays open with no claimant,
\* collaborators or splits, and the task's status is not advanced.
C12_InvalidClaimRequestRejected ==
    \A u \in Workers, s \in DOMAIN subtask, r \in ClaimRequests :
        LET names == /\ r # None
                     /\ get(r).collaborators # None
                     /\ Len(get(get(r).collaborators)) > 0
            wallets == get(get(r).collaborators)
            given == get(r).splits # None
            splits == get(get(r).splits)
            bad == \/ \E i \in 1..Len(wallets) : wallets[i][1] \notin Users
                   \/ given /\ Len(splits) # Len(wallets) + 1
                   \/ given /\ sum(splits) # 100000
        IN  ( /\ subtask[s].status = "open"
              /\ names
              /\ bad )
            => /\ claim_subtask_code(u, s, r) = 400
               /\ ~ENABLED (/\ claim_subtask(u, s, r)
                            /\ (subtask' # subtask \/ task' # task))

\* C13: for every open subtask, a successful claim followed by a successful
\* unclaim returns the subtask's status, claimed_by, claimed_at, collaborators
\* and collaborator_splits to exactly their values before the claim: open and
\* all unset.  An open subtask has all of them unset, a claim that succeeds on
\* it (with any body) gives a row that its claimant may unclaim, and the
\* unclaim of that row, as of every claimed subtask reached, resets the five.
C13_ClaimUnclaimRoundTrip ==
    \A s \in DOMAIN subtask :
        /\ subtask[s].status = "open" =>
               /\ subtask[s].claimed_by = None
               /\ subtask[s].claimed_at = FALSE
               /\ subtask[s].collaborators = None
               /\ subtask[s].collaborator_splits = None
               /\ \A u \in Workers, r \in ClaimRequests :
                      claim_subtask_code(u, s, r) = 200 =>
                          LET before == subtask[s]
                              claimed == claimed_row(before, u, r)
                              after == unclaimed_row(claimed)
                          IN  /\ claimed.status = "claimed"
                              /\ claimed.claimed_by = Some(u)
                              /\ unclaim_authorized(u, claimed)
                              /\ unclaim_status_ok(claimed)
                              /\ after.status = before.status
                              /\ after.claimed_by = before.claimed_by
                              /\ after.claimed_at = before.claimed_at
                              /\ after.collaborators = before.collaborators
                              /\ after.collaborator_splits = before.collaborator_splits
        /\ subtask[s].status = "claimed" =>
               \A u \in Users :
                   (subtask[s].claimed_by = Some(u) \/ u = "admin") =>
                       /\ unclaim_subtask_code(u, s) = 200
                       /\ ENABLED (/\ unclaim_subtask(u, s)
                                   /\ subtask'[s].status = "open")
                       /\ ~ENABLED (/\ unclaim_subtask(u, s)
                                    /\ ~(/\ subtask'[s].status = "open"
                                         /\ subtask'[s].claimed_by = None
                                         /\ subtask'[s].claimed_at = FALSE
                                         /\ subtask'[s].collaborators = None
                                         /\ subtask'[s].collaborator_splits = None))

\* C13 witness: the task was advanced by a claim, and every subtask is open
\* again with nothing left of the claim.
C13_Witness ==
    /\ DOMAIN subtask # {}
    /\ \A s \in DOMAIN subtask :
           /\ task[subtask[s].task_id].status = "in_progress"
           /\ subtask[s].status = "open"
           /\ subtask[s].claimed_by = None
           /\ subtask[s].claimed_at = FALSE
           /\ subtask[s].collaborators = None
           /\ subtask[s].collaborator_splits = None

\* C14: every successful resolve of a dispute leaves the dispute's subtask
\* approved when its claimant is the winner and rejected otherwise, and leaves
\* the parent task in_progress, never disputed.
C14_ResolveOutcome ==
    [][\A u \in Users, d \in 1..MaxDisputes, winner \in Users :
        ( /\ resolve_dispute_code(u, d, winner) = 200
          /\ resolve_dispute(u, d, winner) )
        => LET s == disputes[d].subtask_id
               t == subtask[s].task_id
           IN  /\ disputes'[d].status = "resolved"
               /\ subtask'[s].status =
                      IF subtask[s].claimed_by = Some(winner)
                      THEN "approved" ELSE "rejected"
               /\ task'[t].status = "in_progress"
    ]_vars

\* C14 witness: a resolved dispute won by someone other than the claimant, its
\* subtask rejected and the task back in progress.
C14_Witness ==
    \E d \in DOMAIN disputes :
        /\ disputes[d].status = "resolved"
        /\ subtask[disputes[d].subtask_id].claimed_by # None
        /\ subtask[disputes[d].subtask_id].claimed_by # disputes[d].winner_id
        /\ subtask[disputes[d].subtask_id].status = "rejected"
        /\ task[subtask[disputes[d].subtask_id].task_id].status = "in_progress"

\* C15: while a subtask's status is disputed, every operation other than a
\* successful resolve of a dispute on that subtask (claim, unclaim, submit,
\* approve, reject, a further dispute, task cancel or complete) leaves its
\* status disputed: a step that takes it out of disputed resolves an open
\* dispute on it.
C15_DisputedUntilResolved ==
    [][\A s \in SubtaskIds :
        ( /\ s \in DOMAIN subtask
          /\ subtask[s].status = "disputed"
          /\ subtask'[s].status # "disputed" )
        => \E d \in DOMAIN disputes :
               /\ disputes[d].subtask_id = s
               /\ disputes[d].status = "open"
               /\ disputes'[d].status = "resolved"
    ]_vars

\* C15 witness: a subtask still disputed after a further dispute was raised on
\* it, both disputes open.
C15_Witness ==
    \E s \in DOMAIN subtask :
        /\ subtask[s].status = "disputed"
        /\ Len(disputes) = 2
        /\ \A d \in DOMAIN disputes :
               disputes[d].subtask_id = s /\ disputes[d].status = "open"

\* C16: when the escrow gateway is configured, fund succeeds only if
\* verify_transaction returns a receipt whose status is success (1); when the
\* transaction is not found or failed, fund is rejected (400) and the task
\* stays draft with escrow_tx_hash, escrow_contract_task_id and funded_at unset.
C16_FundNeedsVerifiedTransaction ==
    configured =>
        \A u \in Users, t \in Tasks, tx \in TxHashes :
            /\ fund_task_code(u, t, tx) = 200 => verify_transaction(tx) = Some(1)
            /\ ( /\ task[t].status = "draft"
                 /\ (task[t].client_id = u \/ u = "admin")
                 /\ verify_transaction(tx) # Some(1) )
               => /\ fund_task_code(u, t, tx) = 400
                  /\ task[t].escrow_tx_hash = None
                  /\ task[t].escrow_contract_task_id = None
                  /\ task[t].funded_at = FALSE
                  /\ ~ENABLED (fund_task(u, t, tx) /\ task' # task)
            /\ ( /\ task[t].status = "draft"
                 /\ (task[t].client_id = u \/ u = "admin")
                 /\ verify_transaction(tx) = Some(1) )
               => /\ ENABLED (fund_task(u, t, tx) /\ task'[t].status = "funded")
                  /\ ~ENABLED (/\ fund_task(u, t, tx)
                               /\ ~(/\ task'[t].status = "funded"
                                    /\ task'[t].escrow_tx_hash = Some(tx)))
            /\ task[t].escrow_tx_hash # None =>
                   verify_transaction(get(task[t].escrow_tx_hash)) = Some(1)

\* C16 witness: with the gateway configured, a task funded with the transaction
\* the chain reports successful.
C16_Witness ==
    \E t \in Tasks :
        /\ configured
        /\ task[t].status = "funded"
        /\ task[t].escrow_tx_hash = Some("tx_ok")
        /\ task[t].funded_at = TRUE

\* C17 as the specification states it: a task's escrow_contract_task_id is set
\* exactly once, at funding: it is unset while the task is draft, it is set by
\* every successful fund, and no later operation changes it.
C17_EscrowIdSetByEveryFund ==
    [][\A t \in Tasks :
        /\ task[t].status = "draft" => task[t].escrow_contract_task_id = None
        /\ (task[t].status = "draft" /\ task'[t].status = "funded")
               => task'[t].escrow_contract_task_id # None
        /\ task[t].status # "draft"
               => task'[t].escrow_contract_task_id = task[t].escrow_contract_task_id
    ]_vars

\* C17, amended: a task's escrow_contract_task_id is set at most once, at
\* funding: it is unset while the task is draft, a successful fund sets it
\* exactly when the escrow gateway is configured (without a gateway the task is
\* funded with it unset), and no later operation changes it.
C17_EscrowIdSetByConfiguredFund ==
    [][\A t \in Tasks :
        /\ task[t].status = "draft" => task[t].escrow_contract_task_id = None
        /\ (task[t].status = "draft" /\ task'[t].status = "funded")
               => (task'[t].escrow_contract_task_id # None <=> configured)
        /\ task[t].status # "draft"
               => task'[t].escrow_contract_task_id = task[t].escrow_contract_task_id
    ]_vars

\* C17 witness: a task bound to the escrow at funding and still bound, with the
\* same id, after it was decomposed, claimed and disputed.
C17_Witness ==
    \E t \in Tasks :
        /\ task[t].status = "disputed"
        /\ task[t].escrow_contract_task_id = Some(0)

\* C18: if submit is called with an artifact and the filename or extension
\* check, the size check or the content-store upload fails, the whole operation
\* fails (400, or 502 for the upload): no Submission is created and the
\* subtask's status and submitted_at are unchanged.
C18_FailedArtifactFailsSubmit ==
    \A u \in Users, s \in DOMAIN subtask,
       a \in {"no_filename", "bad_extension", "too_big", "pin_fails"} :
        /\ submit_work_code(u, s, a) # 200
        /\ submit_work_code(u, s, "ok") = 200 =>
               submit_work_code(u, s, a) = (IF a = "pin_fails" THEN 502 ELSE 400)
        /\ ~ENABLED (/\ submit_work(u, s, a)
                     /\ \/ submissions' # submissions
                        \/ subtask'[s].status # subtask[s].status
                        \/ subtask'[s].submitted_at # subtask[s].submitted_at)

\* C18 witness: a claimed subtask with no submission, whose claimant's submit is
\* accepted with a good artifact and refused with 502 when the upload fails,
\* beside a subtask submitted with its artifact pinned.
C18_Witness ==
    \E s \in DOMAIN subtask, u \in Users :
        /\ subtask[s].status = "claimed"
        /\ subtask[s].claimed_by = Some(u)
        /\ subtask[s].submitted_at = FALSE
        /\ latest_submission(submissions, s) = 0
        /\ submit_work_code(u, s, "ok") = 200
        /\ submit_work_code(u, s, "pin_fails") = 502
        /\ \E i \in DOMAIN submissions : submissions[i].artifact_ipfs_hash = TRUE

C20_ReviewByClientOrAdminOfSubmitted ==
    \A u \in Users, s \in DOMAIN subtask :
        LET actor_ok == task[subtask[s].task_id].client_id = u \/ u = "admin"
            status_ok == subtask[s].status = "submitted"
        IN  /\ approve_subtask_code(u, s) = 200 <=> actor_ok /\ status_ok
            /\ reject_subtask_code(u, s) = 200 <=> actor_ok /\ status_ok
            /\ ~actor_ok =>
                   approve_subtask_code(u, s) = 403 /\ reject_subtask_code(u, s) = 403
            /\ (actor_ok /\ ~status_ok) =>
                   approve_subtask_code(u, s) = 400 /\ reject_subtask_code(u, s) = 400
            /\ ~(actor_ok /\ status_ok) =>
                   /\ \A o \in PaymentOutcomes :
                          ~ENABLED (/\ approve_subtask(u, s, o)
                                    /\ \/ subtask' # subtask
                                       \/ submissions' # submissions
                                       \/ users' # users)
                   /\ ~ENABLED (/\ reject_subtask(u, s)
                                /\ \/ subtask' # subtask
                                   \/ submissions' # submissions
                                   \/ users' # users)
            /\ (actor_ok /\ status_ok) =>
                   /\ ENABLED (/\ approve_subtask(u, s, "paid")
                               /\ subtask'[s].status = "approved")
                   /\ ENABLED (/\ reject_subtask(u, s)
                               /\ subtask'[s].status = "rejected")

\* C20 witness: a subtask rejected by a review, its latest submission rejected,
\* on which the client's approve now answers 400 and its claimant's reject 403.
C20_Witness ==
    \E s \in DOMAIN subtask :
        /\ subtask[s].status = "rejected"
        /\ subtask[s].claimed_by # None
        /\ latest_submission(submissions, s) # 0
        /\ submissions[latest_submission(submissions, s)].status = "rejected"
        /\ approve_subtask_code(task[subtask[s].task_id].client_id, s) = 400
        /\ reject_subtask_code(get(subtask[s].claimed_by), s) = 403

\* C21: a dispute request by a user who is none of the task's client, the
\* subtask's claimant, a listed collaborator or an admin is rejected as
\* unauthorized (403): no Dispute is created and the subtask's and the task's
\* statuses are unchanged; any of those four is accepted.
C21_DisputeByOutsiderRejected ==
    \A u \in Users, s \in DOMAIN subtask :
        LET involved ==
                \/ task[subtask[s].task_id].client_id = u
                \/ subtask[s].claimed_by = Some(u)
                \/ /\ subtask[s].collaborators # None
                   /\ \E i \in 1..Len(get(subtask[s].collaborators)) :
                          get(subtask[s].collaborators)[i] = u
                \/ u = "admin"
        IN  /\ create_dispute_code(u, s) = 200 <=> involved
            /\ ~involved =>
                   /\ create_dispute_code(u, s) = 403
                   /\ ~ENABLED (/\ create_dispute(u, s)
                                /\ \/ disputes' # disputes
                                   \/ subtask' # subtask
                                   \/ task' # task)

\* C21 witness: a subtask disputed by its claimant, on which the other worker,
\* who has no part in it, is refused.
C21_Witness ==
    \E s \in DOMAIN subtask, d \in DOMAIN disputes, u \in Workers :
        /\ disputes[d].subtask_id = s
        /\ subtask[s].claimed_by = Some(disputes[d].raised_by)
        /\ subtask[s].status = "disputed"
        /\ subtask[s].claimed_by # Some(u)
        /\ create_dispute_code(u, s) = 403

C23_CountersFrame ==
    [][(\E x \in Users :
            \/ users'[x].tasks_completed # users[x].tasks_completed
            \/ users'[x].tasks_approved # users[x].tasks_approved
            \/ users'[x].disputes_won # users[x].disputes_won
            \/ users'[x].disputes_lost # users[x].disputes_lost)
        => \/ \E s \in DOMAIN subtask :
                  /\ subtask[s].status = "submitted"
                  /\ subtask'[s].status = "approved"
           \/ \E d \in DOMAIN disputes :
                  /\ disputes[d].status = "open"
                  /\ disputes'[d].status = "resolved"
    ]_vars

\* C23 witness: a user with counters earned by an approval and a lost dispute,
\* all still in place after the user edited the profile.
C23_Witness ==
    \E x \in Users :
        /\ users[x].bio = Some("about")
        /\ users[x].tasks_completed = 1
        /\ users[x].tasks_approved = 1
        /\ users[x].disputes_lost = 1

\* C24: reorder succeeds only if the provided ids, as a set, equal the set of
\* the task's subtask ids; after a successful reorder the N subtasks of the
\* task hold pairwise distinct sequence_order values, exactly 1..N, in the
\* provided order.
C24_ReorderAssignsOneToN ==
    [][\A u \in Users, t \in Tasks, ids \in ReorderLists :
          (reorder_subtasks(u, t, ids) /\ reorder_subtasks_code(u, t, ids) = 200)
          => LET N == Cardinality(subtasks_of(subtask, t))
             IN  /\ reorder_ids_match(subtask, t, ids)
                 /\ \A i \in 1..Len(ids) : subtask'[ids[i]].sequence_order = i
                 /\ {subtask'[s].sequence_order : s \in subtasks_of(subtask, t)} = 1..N
                 /\ \A a, b \in subtasks_of(subtask, t) :
                        a # b => subtask'[a].sequence_order # subtask'[b].sequence_order
    ]_vars

\* C25: whenever a subtask's status is approved its most recent submission, if
\* it has one, has status approved, and whenever a subtask's status is rejected
\* its most recent submission, if it has one, has status rejected; this holds
\* after any sequence of operations, dispute resolution included.
C25_LatestSubmissionFollowsSubtask ==
    \A s \in DOMAIN subtask :
        LET i == latest_submission(submissions, s)
        IN  /\ (subtask[s].status = "approved" /\ i # 0)
                => submissions[i].status = "approved"
            /\ (subtask[s].status = "rejected" /\ i # 0)
                => submissions[i].status = "rejected"

\* C26: adding a subtask succeeds only when the parent task's status is draft,
\* funded or decomposed; adding to a funded task sets the task to decomposed;
\* adding to a draft or decomposed task leaves the task's status unchanged;
\* adding to a task that is in_progress or later is rejected and nothing
\* changes.
C26_CreateSubtaskByTaskStatus ==
    \A u \in Users, t \in Tasks :
        LET st == task[t].status
            n == next_subtask_id
            code == create_subtask_code(u, t, n)
        IN  /\ code = 200 => st \in {"draft", "funded", "decomposed"}
            /\ code = 200 =>
                   /\ ENABLED (create_subtask(u, t, n) /\ n \in DOMAIN subtask')
                   /\ ~ENABLED (/\ create_subtask(u, t, n)
                                /\ task'[t].status #
                                       (IF st = "funded" THEN "decomposed" ELSE st))
            /\ st \notin {"draft", "funded", "decomposed"} =>
                   /\ code # 200
                   /\ ~ENABLED (create_subtask(u, t, n) /\ vars' # vars)

\* C26 witness: a task that became decomposed by its first subtask and stayed
\* decomposed when the second was added, now in progress and closed to more.
C26_Witness ==
    \E t \in Tasks :
        /\ task[t].status = "in_progress"
        /\ Cardinality(subtasks_of(subtask, t)) = 2
        /\ task[t].escrow_tx_hash # None

\* C27: a successful claim of a subtask under a funded or decomposed task sets
\* the task's status to in_progress in the same operation, and a successful
\* claim under a task already in_progress leaves the task's status unchanged.
C27_ClaimStartsTask ==
    [][\A u \in Users, s \in SubtaskIds, r \in ClaimRequests :
          (claim_subtask(u, s, r) /\ claim_subtask_code(u, s, r) = 200)
          => LET t == subtask[s].task_id
             IN  /\ task[t].status \in {"funded", "decomposed", "in_progress"}
                 /\ task'[t].status = "in_progress"
                 /\ subtask'[s].status = "claimed"
                 /\ task[t].status = "in_progress" => task' = task
    ]_vars

\* C27 witness: two subtasks claimed by different workers under one task, the
\* first claim having started the task and the second having found it started.
C27_Witness ==
    \E a, b \in DOMAIN subtask :
        /\ a # b
        /\ subtask[a].task_id = subtask[b].task_id
        /\ subtask[a].status = "claimed" /\ subtask[a].claimed_by = Some("w1")
        /\ subtask[b].status = "claimed" /\ subtask[b].claimed_by = Some("w2")
        /\ task[subtask[a].task_id].status = "in_progress"

\* C28: resolve succeeds only when the actor is an admin and the dispute's
\* status is open; a second resolve of the same dispute is rejected without
\* changing the subtask's status, the task's status or any reputation counter;
\* and a dispute once resolved stays resolved, with the winner recorded.
C28_ResolveOnceByAdmin ==
    /\ [](\A u \in Users, d \in DOMAIN disputes, winner \in Users :
            /\ resolve_dispute_code(u, d, winner) = 200
                   => is_admin(u) /\ disputes[d].status = "open"
            /\ disputes[d].status = "resolved"
                   => /\ resolve_dispute_code(u, d, winner) # 200
                      /\ ~ENABLED (/\ resolve_dispute(u, d, winner)
                                   /\ \/ subtask' # subtask
                                      \/ task' # task
                                      \/ users' # users
                                      \/ disputes' # disputes))
    /\ [][\A d \in DOMAIN disputes :
             disputes[d].status = "resolved" => disputes'[d] = disputes[d]]_vars

\* C28 witness: a resolved dispute whose subtask has since been disputed again,
\* so that a repeated resolve of the first would find a subtask to overwrite.
C28_Witness ==
    \E d, e \in DOMAIN disputes :
        /\ disputes[d].status = "resolved"
        /\ disputes[e].status = "open"
        /\ disputes[e].subtask_id = disputes[d].subtask_id
        /\ subtask[disputes[d].subtask_id].status = "disputed"

\* C29: approve and reject change only the most recently created Submission of
\* the subtask under review; earlier submissions of the same subtask and the
\* submissions of other subtasks are unchanged; and no operation removes a
\* Submission.  In every step the submissions list keeps its rows, and a row
\* that changes is the newest row of a submitted subtask that the step approves
\* or rejects.
C29_ReviewWritesNewestSubmission ==
    [][/\ Len(submissions') >= Len(submissions)
       /\ \A i \in 1..Len(submissions) :
             submissions'[i] # submissions[i]
             => LET s == submissions[i].subtask_id
                IN  /\ \A j \in (i + 1)..Len(submissions) :
                           submissions[j].subtask_id # s
                    /\ subtask[s].status = "submitted"
                    /\ subtask'[s].status \in {"approved", "rejected"}
                    /\ submissions'[i].status = subtask'[s].status
                    /\ submissions'[i].subtask_id = s
    ]_vars

\* C29 witness: a subtask with a rejected first submission and an approved
\* second one.
C29_Witness ==
    /\ Len(submissions) = 2
    /\ submissions[1].subtask_id = submissions[2].subtask_id
    /\ submissions[1].status = "rejected"
    /\ submissions[2].status = "approved"

C31_TierTable ==
    tier # None =>
        LET c == users["w1"].tasks_completed
            a == users["w1"].tasks_approved
            sc == get(score)
        IN  get(tier) =
                IF c = 0 THEN "new"
                ELSE IF c >= 50 /\ 10 * a >= 9 * c /\ sc >= 600 THEN "expert"
                ELSE IF c >= 20 /\ 10 * a >= 8 * c /\ sc >= 300 THEN "established"
                ELSE IF c >= 5 /\ sc >= 50 THEN "active"
                ELSE "new"

\* C31 witness: a user with 50 tasks completed and a score for expert whose
\* approval rate falls between 0.8 and 0.9, and so is established.
C31_Witness ==
    /\ tier = Some("established")
    /\ users["w1"].tasks_completed >= 50
    /\ get(score) >= 600
    /\ 10 * users["w1"].tasks_approved < 9 * users["w1"].tasks_completed

\* C32: when two approve requests for the same submitted subtask are processed
\* concurrently, at most one succeeds: the two never both answer 200, the
\* claimant's tasks_completed and tasks_approved rise by exactly 1 in total,
\* and the escrow gateway receives at most one approve_subtask_payment call for
\* that subtask.
C32_OneApproveWins ==
    \A s \in DOMAIN subtask :
        LET approves == {r \in ReqIds : req[r].op = "approve" /\ req[r].sid = s}
        IN  /\ Cardinality({r \in approves :
                               req[r].pc = "done" /\ req[r].code = 200}) <= 1
            /\ Cardinality({r \in approves : req[r].called}) <= 1
            /\ \A w \in Users :
                   LET mine == {x \in DOMAIN subtask :
                                   /\ subtask[x].claimed_by = Some(w)
                                   /\ subtask[x].status = "approved"}
                   IN  /\ users[w].tasks_completed = Cardinality(mine)
                       /\ users[w].tasks_approved = Cardinality(mine)

\* C33: in every reachable state a task whose status is in_progress or
\* completed has been funded (funded_at and escrow_tx_hash are set); no
\* sequence of operations, the raising and resolving of a dispute on a subtask
\* of a draft task included, moves a task to in_progress without a successful
\* fund.
C33_InProgressTaskWasFunded ==
    \A t \in Tasks :
        task[t].status \in {"in_progress", "completed"}
        => task[t].funded_at /\ task[t].escrow_tx_hash # None

\* C34: in every reachable state, for every dispute whose status is open, the
\* disputed subtask's status is disputed and its parent task's status is
\* disputed; this holds also when several disputes are open on the same
\* subtask or on sibling subtasks and one of them is resolved.
C34_OpenDisputeKeepsDisputed ==
    \A d \in DOMAIN disputes :
        disputes[d].status = "open"
        => /\ subtask[disputes[d].subtask_id].status = "disputed"
           /\ task[subtask[disputes[d].subtask_id].task_id].status = "disputed"

\* C35: in every reachable state a subtask whose status is open has no
\* claimant, and a subtask whose status is claimed, in_progress, submitted,
\* approved or rejected has a claimant (claimed_by set), so that a rejected
\* subtask can always be resubmitted by someone.
C35_ClaimantFollowsStatus ==
    \A s \in DOMAIN subtask :
        /\ subtask[s].status = "open" => subtask[s].claimed_by = None
        /\ subtask[s].status \in {"claimed", "in_progress", "submitted",
                                  "approved", "rejected"}
               => subtask[s].claimed_by # None

\* C36: every successful resolve increments disputes_won for exactly one user
\* and disputes_lost for exactly one user, and these two users are different
\* (also when the subtask has no claimant, or when an admin who is not a party
\* raised the dispute).
C36_ResolveOneWinnerOneLoser ==
    [][\A u \in Users, d \in 1..MaxDisputes, winner \in Users :
        ( /\ resolve_dispute_code(u, d, winner) = 200
          /\ resolve_dispute(u, d, winner) )
        => LET won == {x \in Users : users'[x].disputes_won = users[x].disputes_won + 1}
               lost == {x \in Users : users'[x].disputes_lost = users[x].disputes_lost + 1}
           IN  /\ Cardinality(won) = 1
               /\ Cardinality(lost) = 1
               /\ won \cap lost = {}
               /\ \A x \in Users \ won : users'[x].disputes_won = users[x].disputes_won
               /\ \A x \in Users \ lost : users'[x].disputes_lost = users[x].disputes_lost
    ]_vars

\* C37: for any two distinct subtasks of the same task, the subtask_index
\* passed to the escrow gateway on their approval differs: the index, computed
\* as the number of siblings with a smaller sequence_order, is unique per
\* sibling in every reachable state (also after create_subtask with a repeated
\* sequence_order and after reorder).
C37_SubtaskIndexUnique ==
    \A a, b \in DOMAIN subtask :
        (a # b /\ subtask[a].task_id = subtask[b].task_id)
        => subtask_index(subtask, a) # subtask_index(subtask, b)

\* C38: two distinct tasks funded with the escrow gateway configured never
\* record the same escrow_contract_task_id, for every interleaving of their
\* on-chain deposits (each advancing the contract's task counter) and their
\* fund requests (each reading the current counter).
C38_EscrowIdsDistinct ==
    \A a, b \in DOMAIN task :
        ( /\ a # b
          /\ task[a].escrow_contract_task_id # None
          /\ task[b].escrow_contract_task_id # None )
        => task[a].escrow_contract_task_id # task[b].escrow_contract_task_id

\* C39: in every reachable state every user's tasks_approved equals that
\* user's tasks_completed, and every operation that changes one of the two
\* counters changes the other by the same amount.
C39_ApprovedEqualsCompleted ==
    /\ [](\A x \in Users : users[x].tasks_approved = users[x].tasks_completed)
    /\ [][\A x \in Users :
             users'[x].tasks_approved - users[x].tasks_approved
                 = users'[x].tasks_completed - users[x].tasks_completed]_vars

\* C39 witness: a worker with two approved subtasks, counted twice as completed
\* and twice as approved.
C39_Witness ==
    \E x \in Users :
        /\ users[x].tasks_completed = 2
        /\ users[x].tasks_approved = 2
        /\ \A s \in DOMAIN subtask : subtask[s].status = "approved"

\* C40: a wallet verification succeeds only when the presented nonce is the
\* nonce most recently issued for that wallet and is still stored; a
\* successful verification removes the stored nonce, so that no issued nonce
\* has two successful verifications; a verification rejected for a bad nonce
\* or a bad signature cannot change the nonce cache.
C40_NonceVerifiesOnce ==
    /\ [](\A w \in Workers \X {"mixed", "lower"}, nonce \in 1..MaxNonces,
             signature \in [signer : Workers, nonce : 1..MaxNonces] :
               /\ verify_wallet_code(w, nonce, signature) = 200 =>
                     /\ auth.nonce_cache[lower(w)[1]] = Some(nonce)
                     /\ auth.latest[lower(w)[1]] = Some(nonce)
               /\ verify_wallet_code(w, nonce, signature) # 200 =>
                     ~ENABLED (verify_wallet(w, nonce, signature)
                               /\ auth' # auth))
    /\ [](\A nonce \in 1..Len(auth.verified) : auth.verified[nonce] <= 1)
    /\ [][\A w \in Workers \X {"mixed", "lower"}, nonce \in 1..MaxNonces,
             signature \in [signer : Workers, nonce : 1..MaxNonces] :
               (verify_wallet(w, nonce, signature)
                /\ verify_wallet_code(w, nonce, signature) = 200)
               => auth'.nonce_cache[lower(w)[1]] = None]_vars

\* A nonce was verified once and is stored no more, a later nonce of the
\* same wallet is stored, and an earlier nonce of another wallet was
\* superseded without ever being verified.
C40_Witness ==
    /\ auth.issued = 3
    /\ auth.verified = <<0, 1, 0>>
    /\ auth.nonce_cache["w1"] = Some(3)
    /\ auth.nonce_cache["w2"] = None

====
